---- MODULE Spec2Model ----
(***************************************************************************)
(* State-machine model of the JQQuant backtest core:                       *)
(*   BacktestEngine (src/core/backtest_engine.py) driving a Portfolio and  *)
(*   an OrderManager through the per-date pipeline of run().               *)
(*                                                                         *)
(* Money is fixed point, in cents.  Prices and order sizes are drawn from  *)
(* sets on which slippage and commission are exact in cents.               *)
(*                                                                         *)
(* all_data is never mutated after the fetch and every loop iteration      *)
(* reads only the slice of its own date, so the table is represented by    *)
(* its shape (all_data) and by the slice of the current date (daily_data): *)
(* the slice, and whether a further date follows, are drawn when the loop  *)
(* reaches them.                                                           *)
(***************************************************************************)
EXTENDS Integers, Sequences, FiniteSets, TLC

\* ---------------------------------------------------------------- bounds
MaxDates == 2
MaxOrders == 2
MaxRuns == 2

\* ------------------------------------------------------------- constants
\* commission_rate = 0.0003 and slippage = 0.001 as exact fractions
CommissionRateNum == 3
CommissionRateDen == 10000
SlippageNum == 1
SlippageDen == 1000
\* initial_cash = 1000000: the default of the engine, in cents
DefaultInitialCash == 100000000

\* None / NaN: "no value" for a price, a fill price, a fill amount, a fill time
Unset == -1

Securities == {"A", "B"}
Prices == {10000, 20000}
Amounts == {-2000, -1000, 0, 1000}
InitialCashes == {25000000}
ScenarioCashes == InitialCashes \cup {DefaultInitialCash}

VARIABLES
    pc,                  \* position of the engine: idle, failed, loop, a pipeline step, settle, generate_results, completed
    error,               \* the exception run() raised last ("none" when none)
    strategy,            \* self.strategy is not None
    initial_cash,        \* Portfolio.initial_cash
    cash,                \* Portfolio.cash
    positions,           \* Portfolio.positions: security -> [amount, avg_cost, last_price]
    date_history,        \* Portfolio.date_history
    total_value_history, \* Portfolio.total_value_history
    cash_history,        \* Portfolio.cash_history
    orders,              \* OrderManager.orders, in submission order
    results,             \* self.results
    queried,             \* data_provider.get_price_data has been called
    runs,                \* number of calls of run() that entered the loop
    all_data,            \* shape of the fetched table
    securities,          \* the securities argument of run()
    di,                  \* index of current_date in dates (0 before the first)
    daily_data,          \* the slice of the current date
    pending_orders,      \* _process_orders: the orders of the snapshot not yet visited
    steps,               \* pipeline steps started for the current date, in order
    failed_dates,        \* dates whose processing raised (the error log of run)
    handed,              \* order index -> number of times it was handed to process_order
    applied,             \* order index -> number of times its cash/position effect was applied
    submitted            \* order index -> the date and the hook that appended it, where traced

vars == <<pc, error, strategy, initial_cash, cash, positions, date_history,
          total_value_history, cash_history, orders, results, queried, runs, all_data,
          securities, di, daily_data, pending_orders, steps,
          failed_dates, handed, applied, submitted>>

ledger == <<cash, positions>>
histories == <<date_history, total_value_history, cash_history>>
loopvars == <<di, daily_data, pending_orders, steps>>
ghosts == <<handed, applied>>

\* ------------------------------------------------------------ arithmetic
Abs(x) == IF x < 0 THEN -x ELSE x

RECURSIVE SumOver(_, _)
SumOver(S, f) ==
    IF S = {} THEN 0
    ELSE LET s == CHOOSE x \in S : TRUE
         IN f[s] + SumOver(S \ {s}, f)

\* --------------------------------------------------------------- Portfolio
NewPosition(amount, price) ==
    [amount |-> amount, avg_cost |-> price, last_price |-> price]

\* Portfolio.get_position: the position, or a not-found indicator
HasPosition(pos, sec) == sec \in DOMAIN pos

HeldAmount(pos, sec) == IF HasPosition(pos, sec) THEN pos[sec].amount ELSE 0

\* Portfolio.add_position
add_position(pos, sec, amount, price) ==
    IF ~HasPosition(pos, sec)
    THEN [s \in DOMAIN pos \cup {sec} |->
            IF s = sec THEN NewPosition(amount, price) ELSE pos[s]]
    ELSE [pos EXCEPT ![sec] =
            [amount |-> @.amount + amount,
             avg_cost |-> (@.amount * @.avg_cost + amount * price) \div (@.amount + amount),
             last_price |-> @.last_price]]

\* Portfolio.remove_position
remove_position(pos, sec, amount, price) ==
    [pos EXCEPT ![sec].amount = @ - amount]

\* Portfolio.update_prices
update_prices(pos, prices) ==
    [s \in DOMAIN pos |->
        IF s \in DOMAIN prices THEN [pos[s] EXCEPT !.last_price = prices[s]] ELSE pos[s]]

\* Portfolio total value
TotalValue(c, pos) ==
    c + SumOver({s \in DOMAIN pos : pos[s].amount > 0},
                [s \in DOMAIN pos |-> pos[s].amount * pos[s].last_price])

\* ------------------------------------------------------------ OrderManager
NewOrder(sec, amount) ==
    [security |-> sec, amount |-> amount, status |-> "pending",
     fill_price |-> Unset, fill_amount |-> Unset, fill_time |-> Unset]

FillPrice(amount, price) ==
    IF amount > 0
    THEN (price * (SlippageDen + SlippageNum)) \div SlippageDen
    ELSE (price * (SlippageDen - SlippageNum)) \div SlippageDen

\* OrderManager.process_order: whether settlement occurred
ProcessOrderOk(o, price) == o.status = "pending"

\* OrderManager.process_order: the order afterwards
process_order(o, price) ==
    IF ProcessOrderOk(o, price)
    THEN [o EXCEPT !.status = "filled",
                   !.fill_price = FillPrice(o.amount, price),
                   !.fill_amount = o.amount]
    ELSE o

\* OrderManager.get_commission
get_commission(o) ==
    (Abs(o.fill_amount * o.fill_price) * CommissionRateNum) \div CommissionRateDen

\* OrderManager.get_filled_orders
get_filled_orders(os) == SelectSeq(os, LAMBDA o : o.status = "filled")

\* ---------------------------------------------------------- BacktestEngine
NoResults == [produced |-> FALSE]

NotFetched == [empty |-> TRUE, datetime_index |-> FALSE, security_column |-> FALSE]

\* faulty variant: the strategy check is dropped
StrategyMissing_Never(s) == FALSE

\* run(): "if self.strategy is None"
StrategyMissing(s) == ~s

\* faulty variant: the emptiness check is dropped
DataEmpty_Never(d) == FALSE

\* run(): "if all_data.empty"
DataEmpty(d) == d.empty

\* run(): the securities argument that goes with a table shape
RunSecurities(col) == IF col THEN <<"A", "B">> ELSE <<"A">>

\* run(): dates = sorted(all_data.index.unique()) if the index is a DatetimeIndex
\* else []: is there a date after the i-th, may the dates end after the i-th
HasNextDate(d, i) == d.datetime_index /\ i < MaxDates
NoNextDate(d, i) == ~d.datetime_index \/ i >= 1

SeqRange(q) == {q[i] : i \in DOMAIN q}

\* run(): the slices all_data can hold for one of its dates.  With a security
\* column: the rows of that date, security -> close, where Unset stands both
\* for a security with no row at that date and for a row whose close is NaN
\* (the code reads both as "no price").  Without one: the Series of that
\* date, column -> value.
DailySlices(d, secs) ==
    IF d.security_column
    THEN [SeqRange(secs) -> Prices \cup {Unset}]
    ELSE [{"close"} -> Prices \cup {Unset}]

\* _process_orders: current_price of an order in the slice of the date
CurrentPrice(o, dd, d) ==
    IF ~d.security_column
    THEN dd["close"]
    ELSE IF o.security \in DOMAIN dd THEN dd[o.security] ELSE Unset

\* run(): price of one security of the securities argument in the slice
PriceOf(sec, dd, d) ==
    IF d.security_column
    THEN IF sec \in DOMAIN dd THEN dd[sec] ELSE Unset
    ELSE dd["close"]

\* faulty variant: the rows are not filtered by security: every security of the
\* argument gets the close of the first row
DayPrices_FirstRow(secs, dd, d) ==
    [s \in {x \in SeqRange(secs) : PriceOf(secs[1], dd, d) # Unset} |-> PriceOf(secs[1], dd, d)]

\* run(): the prices dict handed to Portfolio.update_prices
DayPrices(secs, dd, d) ==
    [s \in {x \in SeqRange(secs) : PriceOf(x, dd, d) # Unset} |-> PriceOf(s, dd, d)]

\* faulty variant: record is called before the orders are settled
StepAfter_RecordEarly(step) ==
    CASE step = "before_trading_start" -> "handle_data"
      [] step = "handle_data"          -> "record"
      [] step = "record"               -> "process_orders"
      [] step = "process_orders"       -> "update_prices"
      [] step = "update_prices"        -> "after_trading_end"
      [] step = "after_trading_end"    -> "loop"

\* faulty variant: the orders are settled before handle_data is called
StepAfter_SettleFirst(step) ==
    CASE step = "before_trading_start" -> "process_orders"
      [] step = "process_orders"       -> "handle_data"
      [] step = "handle_data"          -> "update_prices"
      [] step = "update_prices"        -> "after_trading_end"
      [] step = "after_trading_end"    -> "record"
      [] step = "record"               -> "loop"

\* faulty variant: the date ends without record
StepAfter_NoRecord(step) ==
    CASE step = "before_trading_start" -> "handle_data"
      [] step = "handle_data"          -> "process_orders"
      [] step = "process_orders"       -> "update_prices"
      [] step = "update_prices"        -> "after_trading_end"
      [] step = "after_trading_end"    -> "loop"
      [] step = "record"               -> "loop"

\* run(): the step that follows a step of the per-date pipeline
StepAfter(step) ==
    CASE step = "before_trading_start" -> "handle_data"
      [] step = "handle_data"          -> "process_orders"
      [] step = "process_orders"       -> "update_prices"
      [] step = "update_prices"        -> "after_trading_end"
      [] step = "after_trading_end"    -> "record"
      [] step = "record"               -> "loop"

\* faulty variant: the exception of a date is not caught: run() raises
AfterException_Abort == "failed"

\* run(): "except Exception ... continue": where the loop goes after a date raised
AfterException == "loop"

\* _process_orders: indices of the orders whose status is pending, in backlog order
RECURSIVE PendingFrom(_, _)
PendingFrom(os, i) ==
    IF i > Len(os) THEN <<>>
    ELSE (IF os[i].status = "pending" THEN <<i>> ELSE <<>>) \o PendingFrom(os, i + 1)

\* faulty variant: the status filter is dropped: every order of the backlog is visited
PendingOrders_All(os) == [i \in 1..Len(os) |-> i]

\* faulty variant: the pending orders are visited newest first
PendingOrders_NewestFirst(os) ==
    [k \in 1..Len(PendingFrom(os, 1)) |->
        PendingFrom(os, 1)[Len(PendingFrom(os, 1)) + 1 - k]]

PendingOrders(os) == PendingFrom(os, 1)

\* faulty variant: the cash check is dropped
BuyApplies_Always(c, cost) == TRUE

\* _process_orders: "if portfolio.cash >= cost"
BuyApplies(c, cost) == c >= cost

\* faulty variant: the held amount is not compared with the amount sold
SellApplies_AnyAmount(pos, sec, fill_amount) == HasPosition(pos, sec)

\* _process_orders: "if position and position.amount >= abs(order.fill_amount)"
SellApplies(pos, sec, fill_amount) ==
    HasPosition(pos, sec) /\ pos[sec].amount >= Abs(fill_amount)

\* faulty variant: the commission is left out of the cost of a buy
Cost_NoCommission(o) == o.fill_amount * o.fill_price

\* _process_orders: cost of a buy fill, revenue of a sell fill
Cost(o) == o.fill_amount * o.fill_price + get_commission(o)
Revenue(o) == Abs(o.fill_amount) * o.fill_price - get_commission(o)

\* _process_orders: does the fill of o change the ledger
LedgerApplies(o, c, pos) ==
    IF o.fill_amount > 0
    THEN BuyApplies(c, Cost(o))
    ELSE SellApplies(pos, o.security, o.fill_amount)

\* _process_orders: cash after the fill of o
CashAfter(o, c, pos) ==
    IF ~LedgerApplies(o, c, pos) THEN c
    ELSE IF o.fill_amount > 0 THEN c - Cost(o) ELSE c + Revenue(o)

\* _process_orders: positions after the fill of o
PositionsAfter(o, c, pos) ==
    IF ~LedgerApplies(o, c, pos) THEN pos
    ELSE IF o.fill_amount > 0
         THEN add_position(pos, o.security, o.fill_amount, o.fill_price)
         ELSE remove_position(pos, o.security, Abs(o.fill_amount), o.fill_price)

\* what a strategy hook may append to the backlog
Submissions ==
    {<<>>} \cup
    (IF Len(orders) < MaxOrders
     THEN {<<NewOrder(s, a)>> : s \in Securities, a \in Amounts}
     ELSE {})

\* no date and no hook is on record for an order
NotTraced == [date |-> 0, hook |-> "none"]

\* ------------------------------------------------------------------- Init
Init ==
    /\ pc = "idle"
    /\ error = "none"
    /\ strategy = FALSE
    /\ initial_cash \in InitialCashes
    /\ cash = initial_cash
    /\ positions = <<>>
    /\ date_history = <<>>
    /\ total_value_history = <<>>
    /\ cash_history = <<>>
    /\ orders = <<>>
    /\ results = NoResults
    /\ queried = FALSE
    /\ runs = 0
    /\ all_data = NotFetched
    /\ securities = <<>>
    /\ di = 0
    /\ daily_data = <<>>
    /\ pending_orders = <<>>
    /\ steps = <<>>
    /\ failed_dates = {}
    /\ handed = [i \in 1..MaxOrders |-> 0]
    /\ applied = [i \in 1..MaxOrders |-> 0]
    /\ submitted = [i \in 1..MaxOrders |-> NotTraced]

\* ---------------------------------------------------------------- actions
Idle == pc \in {"idle", "failed"}

\* set_strategy(strategy)
SetStrategy ==
    /\ Idle
    /\ ~strategy
    /\ strategy' = TRUE
    /\ UNCHANGED <<orders, pc, error, initial_cash, ledger, histories, results, queried, runs, submitted,
                   all_data, securities, loopvars, failed_dates, ghosts>>

\* run() with no strategy attached: raises at once
RunNoStrategy ==
    /\ Idle
    /\ StrategyMissing(strategy)
    /\ pc' = "failed"
    /\ error' = "no_strategy"
    /\ UNCHANGED <<strategy, initial_cash, ledger, histories, orders, results,
                   queried, runs, submitted, all_data, securities, loopvars,
                   failed_dates, ghosts>>

\* run(): the fetch, the emptiness check and the entry into the loop
Fetch ==
    /\ queried' = TRUE
    /\ \E d \in {NotFetched} \cup [empty : {FALSE}, datetime_index : BOOLEAN,
                                   security_column : BOOLEAN] :
          /\ all_data' = d
          /\ securities' = RunSecurities(d.security_column)
          /\ IF DataEmpty(d)
             THEN pc' = "failed" /\ error' = "empty_data" /\ runs' = runs
             ELSE pc' = "loop" /\ error' = "none" /\ runs' = runs + 1
    /\ di' = 0
    /\ daily_data' = <<>>
    /\ pending_orders' = <<>>
    /\ steps' = <<>>
    /\ UNCHANGED <<strategy, initial_cash, ledger, histories, orders, results,
                   failed_dates, ghosts, submitted>>

\* run() on an engine that has not completed a run
RunFetch ==
    /\ Idle
    /\ ~StrategyMissing(strategy)
    /\ runs < MaxRuns
    /\ Fetch

\* run() called again on an engine whose previous run has returned: the
\* Portfolio and the OrderManager are those created by __init__
RunAgain ==
    /\ pc = "completed"
    /\ ~StrategyMissing(strategy)
    /\ runs < MaxRuns
    /\ Fetch

\* run(): the head of "for current_date in dates": the slice of the next date
NextDate ==
    /\ pc = "loop"
    /\ HasNextDate(all_data, di)
    /\ di' = di + 1
    /\ daily_data' \in DailySlices(all_data, securities)
    /\ steps' = <<>>
    /\ pending_orders' = <<>>
    /\ pc' = "before_trading_start"
    /\ UNCHANGED <<error, strategy, initial_cash, ledger, histories, orders,
                   results, queried, runs, submitted, all_data, securities,
                   failed_dates, ghosts>>

\* a strategy hook: it may append an order, and it returns or raises
Hook(step, subs) ==
    /\ pc = step
    /\ steps' = Append(steps, step)
    /\ \E sub \in subs : orders' = orders \o sub
    /\ \/ pc' = StepAfter(step) /\ UNCHANGED failed_dates
       \/ pc' = AfterException /\ failed_dates' = failed_dates \cup {di}
    /\ UNCHANGED <<error, strategy, initial_cash, ledger, histories, results,
                   queried, runs, all_data, securities, di, daily_data, pending_orders,
                   ghosts>>

StrategyHook(step, subs) == Hook(step, subs) /\ UNCHANGED submitted

\* the same hook, with the date and the hook of every order it appends on record
TracedHook(step, subs) ==
    /\ Hook(step, subs)
    /\ submitted' = [i \in 1..MaxOrders |->
                        IF i > Len(orders) /\ i <= Len(orders')
                        THEN [date |-> di, hook |-> step] ELSE submitted[i]]

BeforeTradingStart == StrategyHook("before_trading_start", {<<>>})

HandleData == StrategyHook("handle_data", Submissions)

AfterTradingEnd == StrategyHook("after_trading_end", Submissions)

\* _process_orders: the snapshot of the pending orders
ProcessOrders ==
    /\ pc = "process_orders"
    /\ steps' = Append(steps, "process_orders")
    /\ pending_orders' = PendingOrders(orders)
    /\ pc' = IF PendingOrders(orders) = <<>> THEN StepAfter("process_orders") ELSE "settle"
    /\ UNCHANGED <<error, strategy, initial_cash, ledger, histories, orders,
                   results, queried, runs, submitted, all_data, securities, di, daily_data,
                   failed_dates, ghosts>>

\* _process_orders: one iteration of "for order in pending_orders"
SettleOrder ==
    /\ pc = "settle"
    /\ pending_orders # <<>>
    /\ LET i == Head(pending_orders)
           o == orders[i]
           price == CurrentPrice(o, daily_data, all_data)
           ok == ProcessOrderOk(o, price)
           f == [process_order(o, price) EXCEPT
                    !.fill_time = IF o.fill_time = Unset THEN di ELSE @]
       IN IF price = Unset
          THEN UNCHANGED <<orders, ledger, ghosts>>
          ELSE /\ handed' = [handed EXCEPT ![i] = @ + 1]
               /\ IF ok
                  THEN /\ orders' = [orders EXCEPT ![i] = f]
                       /\ cash' = CashAfter(f, cash, positions)
                       /\ positions' = PositionsAfter(f, cash, positions)
                       /\ applied' = IF LedgerApplies(f, cash, positions)
                                     THEN [applied EXCEPT ![i] = @ + 1] ELSE applied
                  ELSE UNCHANGED <<orders, ledger, applied>>
    /\ pending_orders' = Tail(pending_orders)
    /\ pc' = IF Tail(pending_orders) = <<>> THEN StepAfter("process_orders") ELSE "settle"
    /\ UNCHANGED <<error, strategy, initial_cash, histories, results, queried, runs, submitted,
                   all_data, securities, di, daily_data, steps,
                   failed_dates>>

\* run(): build the prices dict and call Portfolio.update_prices
UpdatePrices ==
    /\ pc = "update_prices"
    /\ steps' = Append(steps, "update_prices")
    /\ positions' = update_prices(positions, DayPrices(securities, daily_data, all_data))
    /\ pc' = StepAfter("update_prices")
    /\ UNCHANGED <<error, strategy, initial_cash, cash, histories, orders, results,
                   queried, runs, submitted, all_data, securities, di, daily_data, pending_orders,
                   failed_dates, ghosts>>

\* Portfolio.record(current_date)
Record ==
    /\ pc = "record"
    /\ steps' = Append(steps, "record")
    /\ date_history' = Append(date_history, di)
    /\ total_value_history' = Append(total_value_history, TotalValue(cash, positions))
    /\ cash_history' = Append(cash_history, cash)
    /\ pc' = StepAfter("record")
    /\ UNCHANGED <<error, strategy, initial_cash, ledger, orders, results, queried, runs, submitted,
                   all_data, securities, di, daily_data, pending_orders,
                   failed_dates, ghosts>>

\* _generate_results: fill_time.strftime('%Y-%m-%d %H:%M:%S'): the string of
\* a date, fixed width and zero padded; the dates of one month differ in the
\* two digits of the day, which is all the string keeps here
DateString(d) == <<d \div 10, d % 10>>

\* str.__lt__: strings compare character by character, a proper prefix being
\* the smaller
StringLess(a, b) ==
    \/ \E i \in DOMAIN a \cap DOMAIN b :
          a[i] < b[i] /\ \A j \in 1..(i - 1) : a[j] = b[j]
    \/ Len(a) < Len(b) /\ \A j \in DOMAIN a : a[j] = b[j]

\* _generate_results: the entry appended for one filled order
TradeEntry(o) ==
    LET trade_value == Abs(o.fill_amount * o.fill_price)
        commission == get_commission(o)
    IN [date |-> DateString(o.fill_time),
        security |-> o.security,
        type |-> IF o.fill_amount > 0 THEN "buy" ELSE "sell",
        amount |-> Abs(o.fill_amount),
        price |-> o.fill_price,
        value |-> trade_value,
        commission |-> commission,
        net_value |-> IF o.fill_amount > 0 THEN -(trade_value + commission)
                                           ELSE trade_value - commission]

\* _generate_results: "for order in filled_orders: if order.status.value ==
\* 'filled' and order.fill_time: trade_history.append(...)"
TradeEntries(filled) ==
    LET listed == SelectSeq(filled, LAMBDA o : o.status = "filled" /\ o.fill_time # Unset)
    IN [k \in 1..Len(listed) |-> TradeEntry(listed[k])]

\* faulty variant: the trade history is left in submission order
SortByDate_Unsorted(entries) == entries

\* _generate_results: trade_history.sort(key=lambda x: x['date']), a stable sort
SortByDate(entries) ==
    SortSeq(entries, LAMBDA x, y : StringLess(x.date, y.date))

\* returns_pct = returns.pct_change().fillna(0) and its std(): NaN below two
\* returns, else zero exactly when all returns are equal; the first return is
\* 0, so std() > 0 exactly when some total value differs from the one before
StdPositive(tvh) == Len(tvh) >= 2 /\ \E i \in 2..Len(tvh) : tvh[i] # tvh[i - 1]

\* faulty variant: the ratio is computed without looking at std()
SharpeGuard_Dropped(tvh) == TRUE

\* _generate_results: "... if returns_pct.std() > 0 else 0"
SharpeGuard(tvh) == StdPositive(tvh)

\* _generate_results: sharpe_ratio: the constant 0, or mean / std * sqrt(252),
\* a ratio when std() > 0 and NaN when std() is zero or NaN
SharpeRatio(tvh) ==
    IF SharpeGuard(tvh)
    THEN (IF StdPositive(tvh) THEN "ratio" ELSE "nan")
    ELSE "zero"

\* _calculate_max_drawdown: running_max of the cumulative return at i, as the
\* total value it belongs to (cumulative = total value / first total value)
RECURSIVE RunningMax(_, _)
RunningMax(tvh, i) ==
    IF i = 1 THEN tvh[1]
    ELSE LET before == RunningMax(tvh, i - 1)
         IN IF tvh[i] > before THEN tvh[i] ELSE before

\* _calculate_max_drawdown: (cumulative - running_max) / running_max at i, in
\* units of 1/10000, rounded down
Drawdown(tvh, i) ==
    LET running_max == RunningMax(tvh, i)
    IN ((tvh[i] - running_max) * 10) \div (running_max \div 1000)

\* _calculate_max_drawdown: drawdown.min() over the first i dates
RECURSIVE MinDrawdown(_, _)
MinDrawdown(tvh, i) ==
    IF i = 1 THEN Drawdown(tvh, 1)
    ELSE LET here == Drawdown(tvh, i)
             before == MinDrawdown(tvh, i - 1)
         IN IF here < before THEN here ELSE before

\* _calculate_max_drawdown
MaxDrawdown(tvh) ==
    IF Len(tvh) = 0 THEN 0 ELSE Abs(MinDrawdown(tvh, Len(tvh)))

\* _generate_results, as far as the ledger and the backlog decide it
GenerateResults(os, dh, tvh, ch) ==
    [produced |-> TRUE,
     total_trades |-> Len(get_filled_orders(os)),
     dates |-> dh,
     total_value |-> tvh,
     cash |-> ch,
     sharpe_ratio |-> SharpeRatio(tvh),
     max_drawdown |-> MaxDrawdown(tvh),
     trade_history |-> SortByDate(TradeEntries(get_filled_orders(os)))]

\* _generate_results: 'portfolio_history': the dict of the results is given
\* the three lists of the Portfolio themselves, not copies of them, so what it
\* shows under these keys is whatever the lists hold when they are read
portfolio_history ==
    [dates |-> date_history,
     total_value |-> total_value_history,
     cash |-> cash_history]

\* the dict run() returned, self.results, as its holder reads it now: the
\* metrics and the trade history are values made by _generate_results, the
\* portfolio history is read through the lists of the Portfolio
ReturnedResults ==
    IF results.produced
    THEN [results EXCEPT !.dates = portfolio_history.dates,
                         !.total_value = portfolio_history.total_value,
                         !.cash = portfolio_history.cash]
    ELSE results

\* run(): the loop is exhausted: generate the results and return them
Finish ==
    /\ pc = "loop"
    /\ NoNextDate(all_data, di)
    /\ results' = GenerateResults(orders, date_history, total_value_history, cash_history)
    /\ pc' = "completed"
    /\ UNCHANGED <<error, strategy, initial_cash, ledger, histories, orders,
                   queried, runs, submitted, all_data, securities, loopvars,
                   failed_dates, ghosts>>

Next ==
    \/ SetStrategy
    \/ RunNoStrategy
    \/ RunFetch
    \/ NextDate
    \/ BeforeTradingStart
    \/ HandleData
    \/ ProcessOrders
    \/ SettleOrder
    \/ UpdatePrices
    \/ AfterTradingEnd
    \/ Record
    \/ Finish

Spec == Init /\ [][Next]_vars

\* the strategy of the termination check: it trades one lot of one security
FairSubmissions ==
    {<<>>} \cup
    (IF Len(orders) < MaxOrders
     THEN {<<NewOrder(s, a)>> : s \in Securities, a \in {-1000, 1000}}
     ELSE {})

HandleDataFair == StrategyHook("handle_data", FairSubmissions)

AfterTradingEndFair == StrategyHook("after_trading_end", FairSubmissions)

NextFair ==
    \/ SetStrategy
    \/ RunNoStrategy
    \/ RunFetch
    \/ NextDate
    \/ BeforeTradingStart
    \/ HandleDataFair
    \/ ProcessOrders
    \/ SettleOrder
    \/ UpdatePrices
    \/ AfterTradingEndFair
    \/ Record
    \/ Finish

\* run() is synchronous: a step that can be taken is taken
FairSpec == Init /\ [][NextFair]_vars /\ WF_vars(NextFair)

\* the engine constructed with the default initial cash or a smaller one,
\* driven by the strategy that trades one lot of one security
InitScenario ==
    /\ pc = "idle"
    /\ error = "none"
    /\ strategy = FALSE
    /\ initial_cash \in ScenarioCashes
    /\ cash = initial_cash
    /\ positions = <<>>
    /\ date_history = <<>>
    /\ total_value_history = <<>>
    /\ cash_history = <<>>
    /\ orders = <<>>
    /\ results = NoResults
    /\ queried = FALSE
    /\ runs = 0
    /\ all_data = NotFetched
    /\ securities = <<>>
    /\ di = 0
    /\ daily_data = <<>>
    /\ pending_orders = <<>>
    /\ steps = <<>>
    /\ failed_dates = {}
    /\ handed = [i \in 1..MaxOrders |-> 0]
    /\ applied = [i \in 1..MaxOrders |-> 0]
    /\ submitted = [i \in 1..MaxOrders |-> NotTraced]

ScenarioSpec == InitScenario /\ [][NextFair]_vars

\* a strategy that may also trade in before_trading_start: two orders can
\* reach the backlog before the first settlement of a date
BeforeTradingStartTrade == StrategyHook("before_trading_start", FairSubmissions)

NextTrade ==
    \/ SetStrategy
    \/ RunNoStrategy
    \/ RunFetch
    \/ NextDate
    \/ BeforeTradingStartTrade
    \/ HandleDataFair
    \/ ProcessOrders
    \/ SettleOrder
    \/ UpdatePrices
    \/ AfterTradingEndFair
    \/ Record
    \/ Finish

TradeSpec == Init /\ [][NextTrade]_vars

\* the strategy that trades one lot of one security, with the date and the
\* hook of each of its orders on record
HandleDataTraced == TracedHook("handle_data", FairSubmissions)

AfterTradingEndTraced == TracedHook("after_trading_end", FairSubmissions)

NextTraced ==
    \/ SetStrategy
    \/ RunNoStrategy
    \/ RunFetch
    \/ NextDate
    \/ BeforeTradingStart
    \/ HandleDataTraced
    \/ ProcessOrders
    \/ SettleOrder
    \/ UpdatePrices
    \/ AfterTradingEndTraced
    \/ Record
    \/ Finish

TracedSpec == Init /\ [][NextTraced]_vars

NextRerun ==
    \/ SetStrategy
    \/ RunNoStrategy
    \/ RunFetch
    \/ RunAgain
    \/ NextDate
    \/ BeforeTradingStart
    \/ HandleDataFair
    \/ ProcessOrders
    \/ SettleOrder
    \/ UpdatePrices
    \/ AfterTradingEndFair
    \/ Record
    \/ Finish

\* an engine on which run() may be called again after it returned
RerunSpec == Init /\ [][NextRerun]_vars

TypeOK ==
    /\ pc \in {"idle", "failed", "loop", "before_trading_start", "handle_data",
               "process_orders", "settle", "update_prices", "after_trading_end",
               "record", "completed"}
    /\ Len(orders) <= MaxOrders
    /\ di \in 0..MaxDates
    /\ cash \in Int

\* ------------------------------------------------------------- properties
Pipeline ==
    <<"before_trading_start", "handle_data", "process_orders", "update_prices",
      "after_trading_end", "record">>

IsPrefix(p, q) == Len(p) <= Len(q) /\ \A i \in 1..Len(p) : p[i] = q[i]

Last(q) == q[Len(q)]

\* the date of the loop has just been recorded
JustRecorded == pc = "loop" /\ steps # <<>> /\ Last(steps) = "record"

\* the close of a security in the slice of the current date, read from the
\* data alone: with a security column, the close of its row; without one, the
\* close of the Series, which is the row of the one security that was fetched
ClosePrice(sec) ==
    IF all_data.security_column
    THEN IF sec \in DOMAIN daily_data THEN daily_data[sec] ELSE Unset
    ELSE IF sec = securities[1] THEN daily_data["close"] ELSE Unset

\* the mark a position must carry at record: the close of the date, or the
\* mark it had when the date has no price for it
MarkAtRecord(sec) ==
    IF ClosePrice(sec) # Unset THEN ClosePrice(sec) ELSE positions[sec].last_price

\* C1: at every snapshot appended by record(date), the recorded total value is
\* the cash at that moment plus the sum over the positions of amount x mark,
\* the mark being the close of that date, or the previous mark when the date
\* has no price for the security; the recorded cash is that cash.
C1_SnapshotValue ==
    JustRecorded =>
        /\ Last(date_history) = di
        /\ Last(cash_history) = cash
        /\ Last(total_value_history) =
              cash + SumOver(DOMAIN positions,
                             [s \in DOMAIN positions |->
                                positions[s].amount * MarkAtRecord(s)])

\* a snapshot that values a position bought on an earlier date at a close that
\* differs from its cost
C1_Witness ==
    /\ JustRecorded
    /\ \E s \in DOMAIN positions :
          /\ positions[s].amount > 0
          /\ ClosePrice(s) # Unset
          /\ \E i \in DOMAIN orders :
                /\ orders[i].security = s
                /\ orders[i].status = "filled"
                /\ orders[i].fill_time < di
                /\ applied[i] = 1
                /\ orders[i].fill_price > ClosePrice(s)

\* C2: no order is handed to process_order twice and none is applied to the
\* ledger twice; an order is pending exactly as long as it was never handed
\* over, and the orders still to visit in a settlement are never re-visited
\* after they were filled.
C2_SettledOnce ==
    /\ \A i \in 1..MaxOrders :
          /\ handed[i] <= 1
          /\ applied[i] <= handed[i]
          /\ i \notin DOMAIN orders => handed[i] = 0
    /\ \A i \in DOMAIN orders :
          /\ orders[i].status \in {"pending", "filled", "rejected"}
          /\ (orders[i].status = "pending") <=> (handed[i] = 0)
          /\ (orders[i].status = "pending") <=> (orders[i].fill_price = Unset)
          /\ (orders[i].status = "pending") <=> (orders[i].fill_time = Unset)

\* an order filled on the first date is still in the backlog while the second
\* date is settled
C2_Witness ==
    /\ di = 2
    /\ pc = "update_prices"
    /\ \E i \in DOMAIN orders :
          orders[i].status = "filled" /\ orders[i].fill_time = 1 /\ applied[i] = 1

\* C3: cash is never negative.
C3_CashNonNegative == cash >= 0

\* a buy was settled whose cost exceeded the cash: it was not applied
C3_Witness ==
    \E i \in DOMAIN orders :
        /\ orders[i].status = "filled"
        /\ orders[i].amount > 0
        /\ applied[i] = 0
        /\ Cost(orders[i]) > cash

\* a sell order is about to be settled at a known price for more than is held
SellsMoreThanHeld ==
    /\ pc = "settle"
    /\ pending_orders # <<>>
    /\ LET o == orders[Head(pending_orders)]
       IN /\ o.status = "pending"
          /\ o.amount < 0
          /\ CurrentPrice(o, daily_data, all_data) # Unset
          /\ HeldAmount(positions, o.security) < -o.amount

\* C4: settling a sell order for more than is held of its security (no position,
\* a closed position, or a smaller one) leaves positions and cash unchanged.
C4_OversellNoEffect ==
    [][SellsMoreThanHeld => (cash' = cash /\ positions' = positions)]_vars

\* a sell for more than a non-empty position holds was settled and not applied
C4_Witness ==
    \E i \in DOMAIN orders :
        /\ orders[i].status = "filled"
        /\ orders[i].amount < 0
        /\ applied[i] = 0
        /\ HasPosition(positions, orders[i].security)
        /\ positions[orders[i].security].amount > 0
        /\ positions[orders[i].security].amount < -orders[i].amount

\* the dates before the current one are all resolved: recorded or failed
EarlierDatesResolved ==
    \A d \in 1..(di - 1) : d \in SeqRange(date_history) \/ d \in failed_dates

\* C5: the steps of a date are taken in the order of the pipeline, each at most
\* once; the date is recorded exactly when all six were taken; and while a date
\* is in progress every earlier date is already recorded or has failed.
C5_PipelineOrder ==
    /\ IsPrefix(steps, Pipeline)
    /\ (di >= 1 /\ di \in SeqRange(date_history)) <=> (steps = Pipeline)
    /\ pc = "settle" => Last(steps) = "process_orders"
    /\ pc \in SeqRange(Pipeline) => Append(steps, pc) = SubSeq(Pipeline, 1, Len(steps) + 1)
    /\ EarlierDatesResolved

\* the second date was processed to the end, with orders settled on it
C5_Witness ==
    /\ di = 2
    /\ steps = Pipeline
    /\ \E i \in DOMAIN orders : orders[i].fill_time = 2

\* every date that was reached is recorded or failed, never both
AllDatesResolved ==
    \A d \in 1..di : (d \in SeqRange(date_history)) # (d \in failed_dates)

\* C6: once the loop is entered, run() completes and returns a result, and by
\* then every date that was reached is either recorded or failed: a date that
\* raises does not end the run.
C6_RunCompletes ==
    (pc = "loop") ~> (pc = "completed" /\ results.produced /\ AllDatesResolved)

\* a run in which every date raised has returned a result
C6_Witness ==
    /\ pc = "completed"
    /\ results.produced
    /\ di = MaxDates
    /\ failed_dates = 1..di

\* C7: as long as no strategy is attached, run() only fails: the provider is
\* not queried, no hook runs, no order is settled, nothing is recorded and no
\* result exists.
C7_NoStrategyFails ==
    ~strategy =>
        /\ pc \in {"idle", "failed"}
        /\ pc = "failed" => error = "no_strategy"
        /\ ~queried
        /\ steps = <<>>
        /\ di = 0
        /\ \A i \in 1..MaxOrders : handed[i] = 0
        /\ cash = initial_cash /\ positions = <<>>
        /\ date_history = <<>> /\ total_value_history = <<>> /\ cash_history = <<>>
        /\ results = NoResults

C7_Witness == ~strategy /\ pc = "failed" /\ error = "no_strategy"

\* C8: when the fetched table is empty, run() has failed and nothing else has
\* happened: no hook, no order leaving pending, cash and positions as
\* constructed, no snapshot, no result.
C8_EmptyDataFails ==
    (queried /\ all_data.empty) =>
        /\ pc = "failed"
        /\ error = "empty_data"
        /\ steps = <<>>
        /\ di = 0
        /\ \A i \in DOMAIN orders : orders[i].status = "pending"
        /\ \A i \in 1..MaxOrders : handed[i] = 0
        /\ cash = initial_cash /\ positions = <<>>
        /\ date_history = <<>> /\ total_value_history = <<>> /\ cash_history = <<>>
        /\ results = NoResults

C8_Witness == queried /\ all_data.empty /\ pc = "failed" /\ error = "empty_data"

\* a pending order is about to be visited on a date that has no price for its
\* own security
VisitsUnpricedOrder ==
    /\ pc = "settle"
    /\ pending_orders # <<>>
    /\ ClosePrice(orders[Head(pending_orders)].security) = Unset

\* C9: an order whose own security has no price at the date is left pending,
\* with no effect on the ledger, in both data shapes.
C9_UnpricedStaysPending ==
    [][VisitsUnpricedOrder =>
          /\ orders' = orders
          /\ cash' = cash
          /\ positions' = positions]_vars

\* C10 as stated: after run() returns, the date history holds every trading
\* date the run iterated exactly once, and the three histories have that length.
C10_Original ==
    pc = "completed" =>
        /\ date_history = [d \in 1..di |-> d]
        /\ Len(total_value_history) = di
        /\ Len(cash_history) = di

\* C10 amended: the three histories always have the same length, no date is
\* recorded twice, and after run() returns the recorded dates are exactly the
\* dates that were iterated and did not raise.
C10_OneSnapshotPerCompletedDate ==
    /\ Len(total_value_history) = Len(date_history)
    /\ Len(cash_history) = Len(date_history)
    /\ \A i, j \in DOMAIN date_history : i < j => date_history[i] < date_history[j]
    /\ pc \in {"loop", "completed"} => SeqRange(date_history) = (1..di) \ failed_dates

\* a completed run with one recorded and one failed date
C10_Witness ==
    /\ pc = "completed"
    /\ di = 2
    /\ Len(date_history) = 1
    /\ Cardinality(failed_dates) = 1

\* C11: the held amount of every position is non-negative in every reachable
\* state, whatever the signs and sizes of the orders that were settled.
C11_AmountNonNegative ==
    \A s \in DOMAIN positions : positions[s].amount >= 0

\* a position was sold down to nothing by a sell that was applied
C11_Witness ==
    \E i \in DOMAIN orders :
        /\ orders[i].status = "filled" /\ orders[i].amount < 0 /\ applied[i] = 1
        /\ HasPosition(positions, orders[i].security)
        /\ positions[orders[i].security].amount = 0

\* a pending buy is about to be settled at the close of its own security, and
\* the cash covers the cost computed from that close
BuyWithinCash ==
    /\ pc = "settle"
    /\ pending_orders # <<>>
    /\ LET o == orders[Head(pending_orders)]
           close == ClosePrice(o.security)
           fill_price == (close * 1001) \div 1000
           commission == (o.amount * fill_price * 3) \div 10000
       IN /\ o.status = "pending"
          /\ o.amount > 0
          /\ close # Unset
          /\ cash >= o.amount * fill_price + commission

\* the effect the settlement of that buy must have
BuyDebitsCost ==
    LET i == Head(pending_orders)
        o == orders[i]
        close == ClosePrice(o.security)
        fill_price == (close * 1001) \div 1000
        commission == (o.amount * fill_price * 3) \div 10000
    IN /\ orders'[i].status = "filled"
       /\ orders'[i].fill_price = fill_price
       /\ orders'[i].fill_amount = o.amount
       /\ cash' = cash - (o.amount * fill_price + commission)
       /\ HeldAmount(positions', o.security) = HeldAmount(positions, o.security) + o.amount

\* the snapshot of a date values a position bought on that date at the close
\* of the date, not at the fill price
BoughtMarkedAtClose ==
    JustRecorded =>
        \A i \in DOMAIN orders :
            (/\ orders[i].status = "filled"
             /\ orders[i].fill_time = di
             /\ orders[i].amount > 0
             /\ applied[i] = 1
             /\ ClosePrice(orders[i].security) # Unset
             /\ positions[orders[i].security].amount > 0)
            => /\ positions[orders[i].security].last_price = ClosePrice(orders[i].security)
               /\ orders[i].fill_price > ClosePrice(orders[i].security)
               /\ Last(total_value_history) =
                     cash + SumOver(DOMAIN positions,
                                    [s \in DOMAIN positions |->
                                        positions[s].amount * positions[s].last_price])

\* the first date was recorded after exactly one fill: a buy of 1000 at a close
\* of 100.00, by an engine constructed with 1,000,000.00
ScenarioDayOne ==
    /\ JustRecorded
    /\ di = 1
    /\ initial_cash = 100000000
    /\ \E i \in DOMAIN orders :
          /\ orders[i].status = "filled"
          /\ orders[i].amount = 1000
          /\ ClosePrice(orders[i].security) = 10000
          /\ \A j \in DOMAIN orders \ {i} : orders[j].status = "pending"

ScenarioFigures ==
    ScenarioDayOne =>
        /\ \A i \in DOMAIN orders :
              orders[i].status = "filled" =>
                  /\ orders[i].fill_price = 10010
                  /\ get_commission(orders[i]) = 3003
        /\ cash = 89986997
        /\ Last(cash_history) = 89986997
        /\ Last(total_value_history) = 99986997

\* C12: a buy settled with sufficient cash decreases cash by exactly
\* fill_amount x fill_price + commission, with fill_price = close x 1.001 and
\* commission = fill_amount x fill_price x 0.0003, and the snapshot of the same
\* date values the new position at the close of the date.  With 1,000,000.00,
\* a close of 100.00 and a buy of 1000 on the first date: fill price 100.10,
\* commission 30.03, cash 899,869.97 and total value 999,869.97 on that date.
C12_BuySettlement ==
    /\ [][BuyWithinCash => BuyDebitsCost]_vars
    /\ [](BoughtMarkedAtClose /\ ScenarioFigures)

C12_Witness == ScenarioDayOne /\ cash < initial_cash

\* C13: at the start of every call of run(), the second call on the same
\* engine included, the cash equals the initial cash, there is no position,
\* the backlog is empty and the histories are empty.
C13_FreshPerRun ==
    (pc = "loop" /\ di = 0) =>
        /\ cash = initial_cash
        /\ positions = <<>>
        /\ orders = <<>>
        /\ date_history = <<>>
        /\ total_value_history = <<>>
        /\ cash_history = <<>>

\* the orders of the backlog that are filled
FilledOrders == {i \in DOMAIN orders : orders[i].status = "filled"}

\* an entry of the trade history is the trade of order i
EntryOf(e, i) ==
    LET o == orders[i]
        gross == Abs(o.fill_amount) * o.fill_price
        commission == (gross * 3) \div 10000
    IN /\ e.security = o.security
       /\ e.date = DateString(o.fill_time)
       /\ e.amount = Abs(o.fill_amount)
       /\ e.price = o.fill_price
       /\ e.commission = commission
       /\ e.net_value = IF o.fill_amount > 0 THEN -(gross + commission)
                                              ELSE gross - commission

\* C14: the trade history of the result has exactly one entry per filled
\* order, as many as metrics.total_trades, in the order of the fill dates; the
\* net cash flow of an entry is -(|amount| x fill_price + commission) for a buy
\* and |amount| x fill_price - commission for a sell; an order that is not
\* filled has no entry.
C14_TradeHistory ==
    pc = "completed" =>
        LET th == results.trade_history
        IN /\ Len(th) = results.total_trades
           /\ Len(th) = Cardinality(FilledOrders)
           /\ \E by \in [DOMAIN th -> FilledOrders] :
                 /\ \A k, l \in DOMAIN th : k # l => by[k] # by[l]
                 /\ \A k \in DOMAIN th : EntryOf(th[k], by[k])
                 /\ \A k, l \in DOMAIN th :
                       k < l => orders[by[k]].fill_time <= orders[by[l]].fill_time

\* a run has returned in which an order was filled on a later date than an
\* order submitted after it
C14_Witness ==
    /\ pc = "completed"
    /\ \E i, j \in FilledOrders : i < j /\ orders[i].fill_time > orders[j].fill_time

\* every recorded total value is the same
FlatHistory == \A i, j \in DOMAIN total_value_history :
                   total_value_history[i] = total_value_history[j]

\* C15: when every recorded total value is the same (a single snapshot
\* included), the Sharpe ratio of the result is 0 and its maximum drawdown is
\* 0; the maximum drawdown is never negative, and it is 0 for an empty history.
C15_FlatMetrics ==
    pc = "completed" =>
        /\ FlatHistory => (results.sharpe_ratio = "zero" /\ results.max_drawdown = 0)
        /\ results.max_drawdown >= 0
        /\ total_value_history = <<>> => results.max_drawdown = 0

\* a run has returned with two snapshots of the same total value
C15_Witness ==
    /\ pc = "completed"
    /\ Len(total_value_history) >= 2
    /\ FlatHistory
    /\ results.total_value = total_value_history

\* a pending buy is about to be settled at a price, and its cost exceeds the cash
BuyBeyondCash ==
    /\ pc = "settle"
    /\ pending_orders # <<>>
    /\ LET o == orders[Head(pending_orders)]
           price == CurrentPrice(o, daily_data, all_data)
           fill_price == (price * 1001) \div 1000
           commission == (o.amount * fill_price * 3) \div 10000
       IN /\ o.status = "pending"
          /\ o.amount > 0
          /\ price # Unset
          /\ cash < o.amount * fill_price + commission

\* order i was filled without effect on the ledger, for lack of cash or of holdings
FilledUnapplied(i) ==
    /\ orders[i].status = "filled"
    /\ orders[i].amount # 0
    /\ applied[i] = 0

\* C16: a buy settled when the cash is below its cost, or a sell settled when
\* less than its amount is held, ends filled while cash and positions are not
\* touched; the order is not settled again on a later date; and it is counted
\* in metrics.total_trades and listed in the trade history with a net cash
\* flow that is not zero.
C16_FilledUnapplied ==
    /\ [][(BuyBeyondCash \/ SellsMoreThanHeld) =>
             /\ orders'[Head(pending_orders)].status = "filled"
             /\ applied'[Head(pending_orders)] = 0
             /\ cash' = cash
             /\ positions' = positions]_vars
    /\ [][\A i \in DOMAIN orders :
             FilledUnapplied(i) =>
                 /\ orders'[i] = orders[i]
                 /\ applied'[i] = 0
                 /\ handed'[i] = 1]_vars
    /\ [](pc = "completed" =>
             \A i \in DOMAIN orders :
                 FilledUnapplied(i) =>
                     /\ results.total_trades = Cardinality(FilledOrders)
                     /\ \E k \in DOMAIN results.trade_history :
                           /\ EntryOf(results.trade_history[k], i)
                           /\ results.trade_history[k].net_value # 0)

\* a run has returned in which an order was filled without effect on the
\* first date, and the second date was settled and recorded after it
C16_Witness ==
    /\ pc = "completed"
    /\ di = 2
    /\ Len(date_history) = 2
    /\ \E i \in DOMAIN orders : FilledUnapplied(i) /\ orders[i].fill_time = 1

\* orders i and j were filled on the same date, i submitted before j, both for
\* the same security, of which no other order was ever filled
SameDatePair(i, j) ==
    /\ i < j
    /\ orders[i].status = "filled"
    /\ orders[j].status = "filled"
    /\ orders[i].fill_time = orders[j].fill_time
    /\ orders[i].security = orders[j].security
    /\ \A k \in FilledOrders \ {i, j} : orders[k].security # orders[i].security

\* the cost of a filled buy
CostOf(o) ==
    o.fill_amount * o.fill_price + (o.fill_amount * o.fill_price * 3) \div 10000

\* C17: within one date the orders that were pending when the settlement began
\* are settled in the order of the backlog, and the check of each order sees
\* the ledger as the orders settled before it on that date left it: a sell
\* submitted before the buy that creates its position is not applied, a sell
\* submitted after it is, and a second buy sees the cash left by the first.
C17_BacklogOrder ==
    /\ \A k, l \in DOMAIN pending_orders : k < l => pending_orders[k] < pending_orders[l]
    /\ pc = "settle" =>
          \A i \in DOMAIN orders : \A k \in DOMAIN pending_orders :
              orders[i].fill_time = di => i < pending_orders[k]
    /\ \A i, j \in DOMAIN orders :
          SameDatePair(i, j) =>
              /\ (orders[i].amount < 0 /\ orders[j].amount > 0) => applied[i] = 0
              /\ (orders[i].amount > 0 /\ applied[i] = 1 /\ orders[j].amount < 0
                  /\ -orders[j].amount <= orders[i].amount) => applied[j] = 1
              /\ (orders[i].amount > 0 /\ orders[j].amount > 0 /\ FilledOrders = {i, j}) =>
                    /\ applied[i] = 1
                    /\ (applied[j] = 1) <=>
                          (initial_cash - CostOf(orders[i]) >= CostOf(orders[j]))

\* a sell and then a buy of the same security were settled on one date: the
\* sell found nothing to sell, the buy was applied
C17_Witness ==
    \E i, j \in DOMAIN orders :
        /\ SameDatePair(i, j)
        /\ orders[i].amount < 0 /\ applied[i] = 0
        /\ orders[j].amount > 0 /\ applied[j] = 1

\* the settlement of the current date has run to its end
SettledToday == "process_orders" \in SeqRange(steps) /\ pc # "settle"

\* order i was appended by the given hook of the current date
AppendedToday(i, hook) == submitted[i] = [date |-> di, hook |-> hook]

\* the close of the current date an order of a security is settled at: the
\* close of the security, or the close of the Series when the table has no
\* security column
CloseToday(sec) ==
    IF ClosePrice(sec) # Unset THEN ClosePrice(sec) ELSE daily_data["close"]

\* the fill price of order i is the close of the current date with slippage
FilledAtCloseToday(i) ==
    /\ orders[i].status = "filled"
    /\ orders[i].fill_time = di
    /\ orders[i].fill_price =
          IF orders[i].amount > 0
          THEN (CloseToday(orders[i].security) * 1001) \div 1000
          ELSE (CloseToday(orders[i].security) * 999) \div 1000

\* the cash the orders applied so far leave of the initial cash
CashAfterApplied ==
    initial_cash +
    SumOver({i \in DOMAIN orders : applied[i] = 1},
            [i \in DOMAIN orders |->
                LET gross == Abs(orders[i].fill_amount) * orders[i].fill_price
                    commission == (gross * 3) \div 10000
                IN IF orders[i].fill_amount > 0 THEN -(gross + commission)
                                                 ELSE gross - commission])

\* an order appended during after_trading_end of a date is pending at the
\* snapshot of that date, and is settled on a later date at that date's close
AfterTradingEndOrders ==
    \A i \in DOMAIN orders :
        submitted[i].hook = "after_trading_end" =>
            /\ (JustRecorded /\ submitted[i].date = di) => orders[i].status = "pending"
            /\ orders[i].status = "filled" => orders[i].fill_time > submitted[i].date
            /\ (SettledToday /\ orders[i].fill_time = di) => FilledAtCloseToday(i)

\* the snapshot of a date shows the cash as the orders settled on it left it
SnapshotAfterSettlement ==
    JustRecorded => Last(cash_history) = CashAfterApplied

\* C18 as stated: when a date is over, every order appended during its
\* handle_data for a security priced on it has been settled on it at its close
\* with slippage and shows in its snapshot; an order appended during
\* after_trading_end is pending at the snapshot and settled on a later date.
C18_Original ==
    /\ (pc = "loop" /\ di >= 1) =>
          \A i \in DOMAIN orders :
              (AppendedToday(i, "handle_data") /\ ClosePrice(orders[i].security) # Unset)
              => FilledAtCloseToday(i)
    /\ SnapshotAfterSettlement
    /\ AfterTradingEndOrders

\* C18 amended: once the settlement of a date has run, which it does when
\* handle_data returned without raising, every order appended during the
\* handle_data of that date for a security priced on it is filled on that date
\* at its close with slippage, and the snapshot of the date shows the cash
\* after it; an order appended during after_trading_end is pending at the
\* snapshot of its date and is settled on a later date at that date's close.
C18_SettlementDate ==
    /\ SettledToday =>
          \A i \in DOMAIN orders :
              (AppendedToday(i, "handle_data") /\ ClosePrice(orders[i].security) # Unset)
              => FilledAtCloseToday(i)
    /\ SnapshotAfterSettlement
    /\ AfterTradingEndOrders

\* the second date was recorded after it settled, at its own close, an order
\* appended during its handle_data and an order appended during the
\* after_trading_end of the first date
C18_Witness ==
    /\ JustRecorded
    /\ di = 2
    /\ \E i, j \in DOMAIN orders :
          /\ AppendedToday(j, "handle_data")
          /\ FilledAtCloseToday(j) /\ applied[j] = 1
          /\ submitted[i] = [date |-> 1, hook |-> "after_trading_end"]
          /\ FilledAtCloseToday(i) /\ applied[i] = 1

\* C19: after a run on a freshly constructed engine, the final cash equals the
\* initial cash plus the sum of the net cash flows of the trade history.
C19_CashReconciles ==
    pc = "completed" =>
        cash = initial_cash +
               SumOver(DOMAIN results.trade_history,
                       [k \in DOMAIN results.trade_history |->
                           results.trade_history[k].net_value])

\* C20: every call the settlement makes to the Portfolio respects its
\* preconditions: add_position is called with amount > 0 and price > 0, and
\* remove_position with 0 < amount <= the amount held, for any order, the
\* zero-amount order included.
C20_PortfolioPreconditions ==
    (pc = "settle" /\ pending_orders # <<>>) =>
        LET o == orders[Head(pending_orders)]
            price == CurrentPrice(o, daily_data, all_data)
            f == process_order(o, price)
        IN (price # Unset /\ ProcessOrderOk(o, price) /\ LedgerApplies(f, cash, positions)) =>
              IF f.fill_amount > 0
              THEN \* add_position(security, fill_amount, fill_price)
                   f.fill_amount > 0 /\ f.fill_price > 0
              ELSE \* remove_position(security, abs(fill_amount), fill_price)
                   /\ 0 < Abs(f.fill_amount)
                   /\ Abs(f.fill_amount) <= HeldAmount(positions, o.security)

\* a step taken while the engine holds a returned result and does not replace
\* it by the result of a later run
KeepsReturnedResult == results.produced /\ results' = results

\* C21: a result returned by run() is immutable once produced: no later
\* operation on the engine (the settlement of further orders, Portfolio.record,
\* another call of run()) changes the metrics, the portfolio history (dates,
\* total_value, cash) or the trade history that the returned result shows.
C21_ResultImmutable ==
    [][KeepsReturnedResult => ReturnedResults' = ReturnedResults]_vars

====
